---- MODULE Spec2Model ----
(***************************************************************************)
(* Model of the two benchmark drivers of HomeWorkDB:                       *)
(*   task-5.py  the baseline driver   (LIMIT without ORDER BY)             *)
(*   task-6.py  the indexed driver    (ORDER BY id LIMIT, index phases)    *)
(* Both work on the table performance_test through one psycopg2 session    *)
(* that is not in autocommit mode.  The model keeps the committed database *)
(* (db), the session's view of it (cur), the state of the session's        *)
(* transaction (tx) and the position of the driver (pc).                   *)
(***************************************************************************)
EXTENDS Integers, Sequences, FiniteSets, TLC

\* ---------------------------------------------------------------- bounds
MaxSize == 2
MaxTiers == 2
MaxApiCalls == 3

\* ---------------------------------------------------------------- inputs
Variants == {"baseline", "indexed"}
Sizes == 1..MaxSize
Counts == 0..(MaxSize + 1)
\* elapsed seconds returned by time.time() - start_time: zero or positive
Durations == {0, 1}
OpSet == {"Insert", "Select", "Update", "Delete"}
\* the durations measured in one pass over the tiers, per operation:
\* all positive, or one operation too fast for the clock
ElapsedProfiles ==
    {p \in [OpSet -> Durations] : Cardinality({o \in OpSet : p[o] = 0}) <= 1}
NoElapsed == [o \in OpSet |-> 1]
\* (name, description) pairs produced by generate_random_string
Payloads == { [name |-> "aaaaaaaaaa", description |-> <<"p">>],
              [name |-> "bbbbbbbbbb", description |-> <<"q">>] }
\* values of datetime.now()
Stamps == {1, 2}

IndexName == "idx_performance_test_name"
IndexCreatedAt == "idx_performance_test_created_at"
BothIndexes == {IndexName, IndexCreatedAt}
Ops == <<"Insert", "Select", "Update", "Delete">>
Suffix == "_updated"

Min(a, b) == IF a < b THEN a ELSE b

RECURSIVE SeqsUpTo(_, _)
SeqsUpTo(S, n) ==
    IF n = 0 THEN {<<>>}
    ELSE LET shorter == SeqsUpTo(S, n - 1)
         IN shorter \cup {Append(q, x) : q \in {p \in shorter : Len(p) = n - 1}, x \in S}

TestSizeSeqs == SeqsUpTo(Sizes, MaxTiers)

\* ------------------------------------------------------- the SQL statements
\* CREATE TABLE IF NOT EXISTS performance_test (id SERIAL PRIMARY KEY, ...)
EmptyDb == [exists |-> FALSE, table |-> {}, seq |-> 1, indexes |-> {}]

create_test_table(s) ==
    IF s.exists THEN s ELSE [s EXCEPT !.exists = TRUE, !.table = {}, !.seq = 1]

\* faulty variant: TRUNCATE TABLE performance_test without RESTART IDENTITY
TruncateKeepIdentity(s) == [s EXCEPT !.table = {}]

\* TRUNCATE TABLE performance_test RESTART IDENTITY
TruncateRestartIdentity(s) == [s EXCEPT !.table = {}, !.seq = 1]

\* INSERT INTO performance_test (name, description, created_at) VALUES (...)
InsertRow(s, p, ts) ==
    [s EXCEPT !.table = @ \cup {[id |-> s.seq, name |-> p.name,
                                 description |-> p.description, created_at |-> ts]},
              !.seq = @ + 1]

\* the for loop of insert_data: one INSERT per generated record
RECURSIVE InsertRows(_, _, _)
InsertRows(s, ps, tss) ==
    IF ps = <<>> THEN s
    ELSE InsertRows(InsertRow(s, Head(ps), Head(tss)), Tail(ps), Tail(tss))

Ids(table) == {r.id : r \in table}

\* SELECT id FROM performance_test ORDER BY id LIMIT n
FirstIds(table, n) ==
    {r.id : r \in {q \in table : Cardinality({o \in table : o.id < q.id}) < n}}

\* SELECT id FROM performance_test LIMIT n: any n rows (all of them if fewer)
LimitChoices(table, n) ==
    {S \in SUBSET Ids(table) : Cardinality(S) = Min(n, Cardinality(table))}

\* faulty variant: the sub-select's LIMIT is one too small
SelectionsOffByOne(v, table, n) ==
    IF v = "indexed" THEN {FirstIds(table, n - 1)} ELSE LimitChoices(table, n - 1)

\* the sets of ids the sub-select of update_data / delete_data can return
Selections(v, table, n) ==
    IF v = "indexed" THEN {FirstIds(table, n)} ELSE LimitChoices(table, n)

\* faulty variant: the UPDATE has lost its WHERE clause
UpdateRowsAll(table, S) ==
    {[r EXCEPT !.description = Append(@, Suffix)] : r \in table}

\* UPDATE ... SET description = description || '_updated' WHERE id IN S
UpdateRows(table, S) ==
    {IF r.id \in S THEN [r EXCEPT !.description = Append(@, Suffix)] ELSE r : r \in table}

\* DELETE FROM performance_test WHERE id IN S
DeleteRows(table, S) == {r \in table : r.id \notin S}

\* faulty variant: CREATE INDEX without IF NOT EXISTS
CreateIndexUnguarded(idx, name, ifNotExists) ==
    IF name \in idx
    THEN [err |-> "DuplicateTable", indexes |-> idx]
    ELSE [err |-> "none", indexes |-> idx \cup {name}]

\* CREATE INDEX [IF NOT EXISTS] name ON performance_test (...)
CreateIndex(idx, name, ifNotExists) ==
    IF name \in idx
    THEN [err |-> IF ifNotExists THEN "none" ELSE "DuplicateTable", indexes |-> idx]
    ELSE [err |-> "none", indexes |-> idx \cup {name}]

\* DROP INDEX [IF EXISTS] name
DropIndex(idx, name, ifExists) ==
    IF name \in idx
    THEN [err |-> "none", indexes |-> idx \ {name}]
    ELSE [err |-> IF ifExists THEN "none" ELSE "UndefinedObject", indexes |-> idx]

\* ------------------------------------------------ results and log lines
\* a Python dict: keys in insertion order, assignment to a present key overwrites
EmptyDict == [keys |-> <<>>, vals |-> <<>>]

DictSet(d, k, v) ==
    [keys |-> IF k \in DOMAIN d.vals THEN d.keys ELSE Append(d.keys, k),
     vals |-> [x \in (DOMAIN d.vals) \cup {k} |-> IF x = k THEN v ELSE d.vals[x]]]

\* f"\nТестування для {size} записів:"
HeaderLine(n) == [kind |-> "header", size |-> n]
\* f"Час вставки|вибірки|оновлення|видалення {size} записів: {t:.4f} сек"
DurationLine(op, n, t) == [kind |-> op, size |-> n, time |-> t]
TextLine(what) == [kind |-> what]

\* diff_percent = ((without_index - with_index) / without_index) * 100
diff_percent(without_index, with_index) ==
    ((without_index - with_index) * 100) \div without_index

ComparisonRow(n, op, without_index, with_index) ==
    [kind |-> "row", size |-> n, op |-> op, without |-> without_index,
     with |-> with_index, diff |-> diff_percent(without_index, with_index)]

\* the two nested for loops of _print_comparison_table, j-th (size, op) pair
RECURSIVE ComparisonLoop(_, _, _, _)
ComparisonLoop(rw, ri, j, rows) ==
    IF j > 4 * Len(rw.keys) THEN [err |-> "none", rows |-> rows]
    ELSE LET n == rw.keys[((j - 1) \div 4) + 1]
             op == Ops[((j - 1) % 4) + 1]
         IN IF n \notin DOMAIN ri.vals THEN [err |-> "KeyError", rows |-> rows]
            ELSE IF rw.vals[n][op] = 0 THEN [err |-> "ZeroDivisionError", rows |-> rows]
            ELSE ComparisonLoop(rw, ri, j + 1,
                     Append(rows, ComparisonRow(n, op, rw.vals[n][op], ri.vals[n][op])))

_print_comparison_table(rw, ri) ==
    LET r == ComparisonLoop(rw, ri, 1, <<>>)
    IN [err |-> r.err,
        lines |-> <<TextLine("compare_title"), TextLine("compare_columns"),
                    TextLine("rule")>> \o r.rows]

\* the summary table of the baseline driver: one line per key of results
SummaryLines(results) ==
    <<TextLine("summary_title"), TextLine("summary_columns"), TextLine("rule")>>
    \o [j \in 1..Len(results.keys) |->
          [kind |-> "summary", size |-> results.keys[j], times |-> results.vals[results.keys[j]]]]

\* ------------------------------------------- the methods, on a session
\* a session s = [db: committed state, cur: state seen by the cursor, tx]
Commit(s) == [s EXCEPT !.db = s.cur, !.tx = "idle"]

\* a statement that fails aborts the transaction; nothing in the code rolls back
Abort(s) == [s EXCEPT !.cur = s.db, !.tx = "failed"]

\* cursor.execute of one index statement; r is the statement's own outcome
ExecuteIndexStatement(s, fault, r) ==
    IF s.tx = "failed" THEN [err |-> "InFailedSqlTransaction", s |-> s]
    ELSE IF fault THEN [err |-> "OperationalError", s |-> Abort(s)]
    ELSE IF r.err # "none" THEN [err |-> r.err, s |-> Abort(s)]
    ELSE [err |-> "none", s |-> [s EXCEPT !.cur.indexes = r.indexes, !.tx = "open"]]

create_indexes(s, fault) ==
    LET e1 == ExecuteIndexStatement(s, fault = "exec1",
                                    CreateIndex(s.cur.indexes, IndexName, TRUE))
        e2 == ExecuteIndexStatement(e1.s, fault = "exec2",
                                    CreateIndex(e1.s.cur.indexes, IndexCreatedAt, TRUE))
    IN IF e1.err # "none" THEN [err |-> e1.err, s |-> e1.s, line |-> TextLine("create_error")]
       ELSE IF e2.err # "none" THEN [err |-> e2.err, s |-> e2.s, line |-> TextLine("create_error")]
       ELSE [err |-> "none", s |-> Commit(e2.s), line |-> TextLine("create_ok")]

\* faulty variant: drop_indexes forgets the index on created_at
drop_indexes_name_only(s, fault) ==
    LET e1 == ExecuteIndexStatement(s, fault = "exec1",
                                    DropIndex(s.cur.indexes, IndexName, TRUE))
    IN IF e1.err # "none" THEN [err |-> e1.err, s |-> e1.s, line |-> TextLine("drop_error")]
       ELSE [err |-> "none", s |-> Commit(e1.s), line |-> TextLine("drop_ok")]

drop_indexes(s, fault) ==
    LET e1 == ExecuteIndexStatement(s, fault = "exec1",
                                    DropIndex(s.cur.indexes, IndexName, TRUE))
        e2 == ExecuteIndexStatement(e1.s, fault = "exec2",
                                    DropIndex(e1.s.cur.indexes, IndexCreatedAt, TRUE))
    IN IF e1.err # "none" THEN [err |-> e1.err, s |-> e1.s, line |-> TextLine("drop_error")]
       ELSE IF e2.err # "none" THEN [err |-> e2.err, s |-> e2.s, line |-> TextLine("drop_error")]
       ELSE [err |-> "none", s |-> Commit(e2.s), line |-> TextLine("drop_ok")]

\* the statements outside try/except: an aborted transaction makes them raise
Execute(s, s2) ==
    IF s.tx = "failed" THEN [err |-> "InFailedSqlTransaction", s |-> s]
    ELSE [err |-> "none", s |-> s2]

\* faulty variant: the TRUNCATE before a tier is missing
truncate_missing(s) == Execute(s, [s EXCEPT !.tx = "open"])

truncate(s) ==
    Execute(s, [s EXCEPT !.cur = TruncateRestartIdentity(s.cur), !.tx = "open"])

insert_data(s, ps, tss) ==
    Execute(s, Commit([s EXCEPT !.cur = InsertRows(s.cur, ps, tss)]))

select_data(s, n) == Execute(s, [s EXCEPT !.tx = "open"])

update_data(s, S) ==
    Execute(s, Commit([s EXCEPT !.cur.table = UpdateRows(s.cur.table, S)]))

delete_data(s, S) ==
    Execute(s, Commit([s EXCEPT !.cur.table = DeleteRows(s.cur.table, S)]))

\* ------------------------------------------------------------- the state
VARIABLES
    db,            \* committed state of the database
    cur,           \* the database as the open session sees it
    tx,            \* "idle", "open" or "failed": the session's transaction
    pc,            \* position of the driver; "idle": no process is running
    variant,       \* which driver runs
    test_sizes,    \* the argument of run_performance_tests
    i,             \* index of the for loop over test_sizes
    cycle,         \* 1: first call of _run_test_cycle, 2: second call
    elapsed,       \* what time.time() - start_time yields per operation in this pass,
                   \* drawn when the pass reaches its first tier
    times,         \* the durations measured so far in the current tier
    results,       \* the dict built by the running cycle
    results_without_index,
    results_with_index,
    log,           \* the lines of the log file
    exit,          \* how the last process ended
    events,        \* history: what has happened in the current tier, in order
    flags,         \* history: index state at start of the run, index errors
    last,          \* history: the last database operation and the state before it
    calls          \* number of method calls made by the harness

vars == <<db, cur, tx, pc, variant, test_sizes, i, cycle, elapsed, times, results,
          results_without_index, results_with_index, log, exit,
          events, flags, last, calls>>

Sess == [db |-> db, cur |-> cur, tx |-> tx]
SetSess(s) == db' = s.db /\ cur' = s.cur /\ tx' = s.tx

NoFlags == [startIdx |-> {}, createErr |-> "notrun", dropErr |-> "notrun",
            sizes |-> <<>>, truncRows |-> 0, truncSeq |-> 1]
NoLast == [op |-> "none"]
Record(op, n, S, err) ==
    [op |-> op, count |-> n, sel |-> S, err |-> err,
     table |-> cur.table, indexes |-> cur.indexes, seq |-> cur.seq]

size == test_sizes[i]

\* faulty variant: the update is measured before the select
NextStepSwapped(p) ==
    CASE p = "header"     -> "truncate"
      [] p = "truncate"   -> "insert"
      [] p = "insert"     -> "log_insert"
      [] p = "log_insert" -> "update"
      [] p = "update"     -> "log_update"
      [] p = "log_update" -> "select"
      [] p = "select"     -> "log_select"
      [] p = "log_select" -> "delete"
      [] p = "delete"     -> "log_delete"
      [] p = "log_delete" -> "loop"

\* the order of the statements in the body of the for loop over test_sizes
NextStep(p) ==
    CASE p = "header"     -> "truncate"
      [] p = "truncate"   -> "insert"
      [] p = "insert"     -> "log_insert"
      [] p = "log_insert" -> "select"
      [] p = "select"     -> "log_select"
      [] p = "log_select" -> "update"
      [] p = "update"     -> "log_update"
      [] p = "log_update" -> "delete"
      [] p = "delete"     -> "log_delete"
      [] p = "log_delete" -> "loop"

TierSteps == {"truncate", "insert", "log_insert", "select", "log_select",
              "update", "log_update", "delete", "log_delete"}

Locals == <<variant, test_sizes, i, cycle, elapsed, times, results,
            results_without_index, results_with_index>>

Init ==
    /\ db = EmptyDb
    /\ cur = EmptyDb
    /\ tx = "idle"
    /\ pc = "idle"
    /\ variant = "baseline"
    /\ test_sizes = <<>>
    /\ i = 1
    /\ cycle = 1
    /\ elapsed = NoElapsed
    /\ times = <<>>
    /\ results = EmptyDict
    /\ results_without_index = EmptyDict
    /\ results_with_index = EmptyDict
    /\ log = <<>>
    /\ exit = "none"
    /\ events = <<>>
    /\ flags = NoFlags
    /\ last = NoLast
    /\ calls = 0

\* the process ends: the connection goes away and with it the open transaction
ProcessEnd(status) ==
    /\ pc' = "idle"
    /\ exit' = status
    /\ cur' = db
    /\ tx' = "idle"
    /\ db' = db
    /\ variant' = "baseline"
    /\ test_sizes' = <<>>
    /\ i' = 1
    /\ cycle' = 1
    /\ elapsed' = NoElapsed
    /\ times' = <<>>
    /\ results' = EmptyDict
    /\ results_without_index' = EmptyDict
    /\ results_with_index' = EmptyDict

\* main() up to the first pass: connect, create_test_table, empty the log file
Main(v) ==
    /\ pc = "idle"
    /\ LET s == create_test_table(db)
       IN /\ db' = s
          /\ cur' = s
          /\ flags' = [NoFlags EXCEPT !.startIdx = s.indexes]
    /\ tx' = "idle"
    /\ variant' = v
    /\ test_sizes' = <<>>
    /\ i' = 1
    /\ cycle' = 1
    /\ elapsed' = NoElapsed
    /\ times' = <<>>
    /\ results' = EmptyDict
    /\ results_without_index' = EmptyDict
    /\ results_with_index' = EmptyDict
    /\ log' = IF v = "indexed" THEN <<TextLine("phase_without")>> ELSE <<>>
    /\ exit' = "running"
    /\ events' = <<>>
    /\ last' = NoLast
    /\ pc' = "start"
    /\ UNCHANGED calls

\* the first pass over the tiers starts: test_sizes, the argument of
\* run_performance_tests, is drawn here, where it is first read
StartCycle(sizes) ==
    /\ pc = "start"
    /\ test_sizes' = sizes
    /\ flags' = [flags EXCEPT !.sizes = sizes]
    /\ results' = EmptyDict
    /\ pc' = "loop"
    /\ UNCHANGED <<db, cur, tx, variant, i, cycle, elapsed, times,
                   results_without_index, results_with_index, log, exit,
                   events, last, calls>>

\* for size in test_sizes: log the header line of the tier
TierHeader ==
    /\ pc = "loop"
    /\ i <= Len(test_sizes)
    /\ log' = Append(log, HeaderLine(size))
    /\ events' = <<"header">>
    /\ times' = <<>>
    /\ IF i = 1 THEN \E e \in ElapsedProfiles : elapsed' = e ELSE UNCHANGED elapsed
    /\ pc' = NextStep("header")
    /\ UNCHANGED <<db, cur, tx, variant, test_sizes, i, cycle, results,
                   results_without_index, results_with_index, exit,
                   flags, last, calls>>

\* cursor.execute("TRUNCATE TABLE performance_test RESTART IDENTITY")
Truncate ==
    /\ pc = "truncate"
    /\ LET r == truncate(Sess)
       IN IF r.err # "none"
          THEN /\ ProcessEnd(r.err)
               /\ UNCHANGED <<events, last, flags>>
          ELSE /\ SetSess(r.s)
               /\ pc' = NextStep(pc)
               /\ events' = Append(events, "truncate")
               /\ last' = Record("truncate", 0, {}, "none")
               /\ flags' = [flags EXCEPT !.truncRows = Cardinality(cur.table),
                                         !.truncSeq = cur.seq]
               /\ UNCHANGED <<Locals, exit>>
    /\ UNCHANGED <<log, calls>>

\* the inputs of one insert_data(n): n payloads and their timestamps
InsertInputs(n) ==
    {[ps |-> ps, tss |-> [j \in 1..n |-> ts]] : ps \in [1..n -> Payloads], ts \in Stamps}

\* insert_time = self.insert_data(size)
Insert ==
    /\ pc = "insert"
    /\ \E inp \in InsertInputs(size) :
         LET r == insert_data(Sess, inp.ps, inp.tss)
             t == elapsed["Insert"]
         IN /\ r.err = "none"
            /\ SetSess(r.s)
            /\ times' = [o \in {"Insert"} |-> t]
    /\ pc' = NextStep(pc)
    /\ events' = Append(events, "insert")
    /\ last' = Record("insert_data", size, {}, "none")
    /\ UNCHANGED <<variant, test_sizes, i, cycle, elapsed, results,
                   results_without_index, results_with_index, log, exit,
                   flags, calls>>

\* select_time = self.select_data(size)
Select ==
    /\ pc = "select"
    /\ LET r == select_data(Sess, size)
           t == elapsed["Select"]
       IN /\ r.err = "none"
            /\ SetSess(r.s)
            /\ times' = [o \in DOMAIN times \cup {"Select"} |->
                            IF o = "Select" THEN t ELSE times[o]]
    /\ pc' = NextStep(pc)
    /\ events' = Append(events, "select")
    /\ last' = Record("select_data", size, FirstIds(cur.table, size), "none")
    /\ UNCHANGED <<variant, test_sizes, i, cycle, elapsed, results,
                   results_without_index, results_with_index, log, exit,
                   flags, calls>>

\* update_time = self.update_data(size)
Update ==
    /\ pc = "update"
    /\ \E S \in Selections(variant, cur.table, size) :
         LET r == update_data(Sess, S)
             t == elapsed["Update"]
         IN /\ r.err = "none"
            /\ SetSess(r.s)
            /\ times' = [o \in DOMAIN times \cup {"Update"} |->
                            IF o = "Update" THEN t ELSE times[o]]
            /\ last' = Record("update_data", size, S, "none")
    /\ pc' = NextStep(pc)
    /\ events' = Append(events, "update")
    /\ UNCHANGED <<variant, test_sizes, i, cycle, elapsed, results,
                   results_without_index, results_with_index, log, exit,
                   flags, calls>>

\* delete_time = self.delete_data(size)
Delete ==
    /\ pc = "delete"
    /\ \E S \in Selections(variant, cur.table, size) :
         LET r == delete_data(Sess, S)
             t == elapsed["Delete"]
         IN /\ r.err = "none"
            /\ SetSess(r.s)
            /\ times' = [o \in DOMAIN times \cup {"Delete"} |->
                            IF o = "Delete" THEN t ELSE times[o]]
            /\ last' = Record("delete_data", size, S, "none")
    /\ pc' = NextStep(pc)
    /\ events' = Append(events, "delete")
    /\ UNCHANGED <<variant, test_sizes, i, cycle, elapsed, results,
                   results_without_index, results_with_index, log, exit,
                   flags, calls>>

OpOfLog(p) ==
    CASE p = "log_insert" -> "Insert"
      [] p = "log_select" -> "Select"
      [] p = "log_update" -> "Update"
      [] p = "log_delete" -> "Delete"

\* self.log_result(f"Час ... {size} записів: {t:.4f} сек") after insert, select, update
LogDuration ==
    /\ pc \in {"log_insert", "log_select", "log_update"}
    /\ log' = Append(log, DurationLine(OpOfLog(pc), size, times[OpOfLog(pc)]))
    /\ events' = Append(events, pc)
    /\ pc' = NextStep(pc)
    /\ UNCHANGED <<db, cur, tx, Locals, exit, flags, last, calls>>

\* the log line of the delete and results[size] = {...}; the loop advances
TierEnd ==
    /\ pc = "log_delete"
    /\ log' = Append(log, DurationLine("Delete", size, times["Delete"]))
    /\ events' = Append(events, pc)
    /\ results' = DictSet(results, size, times)
    /\ i' = i + 1
    /\ pc' = NextStep(pc)
    /\ UNCHANGED <<db, cur, tx, variant, test_sizes, cycle, elapsed, times,
                   results_without_index, results_with_index, exit,
                   flags, last, calls>>

\* return results: the for loop over test_sizes is exhausted
CycleReturn ==
    /\ pc = "loop"
    /\ i > Len(test_sizes)
    /\ IF variant = "baseline"
       THEN /\ pc' = "summary"
            /\ UNCHANGED <<results_without_index, results_with_index>>
       ELSE IF cycle = 1
       THEN /\ pc' = "create_indexes"
            /\ results_without_index' = results
            /\ UNCHANGED results_with_index
       ELSE /\ pc' = "drop_indexes"
            /\ results_with_index' = results
            /\ UNCHANGED results_without_index
    /\ UNCHANGED <<db, cur, tx, variant, test_sizes, i, cycle, elapsed, times,
                   results, log, exit, events, flags, last, calls>>

IndexFaults == {"none", "exec1", "exec2"}

\* self.create_indexes(); the header of the second pass; second _run_test_cycle starts
CreateIndexes(fault) ==
    /\ pc = "create_indexes"
    /\ LET r == create_indexes(Sess, fault)
       IN /\ SetSess(r.s)
          /\ log' = log \o <<r.line, TextLine("phase_with")>>
          /\ flags' = [flags EXCEPT !.createErr = r.err]
          /\ last' = Record("create_indexes", 0, {}, r.err)
    /\ cycle' = 2
    /\ i' = 1
    /\ results' = EmptyDict
    /\ pc' = "loop"
    /\ UNCHANGED <<variant, test_sizes, elapsed, times, results_without_index,
                   results_with_index, exit, events, calls>>

\* self.drop_indexes()
DropIndexes(fault) ==
    /\ pc = "drop_indexes"
    /\ LET r == drop_indexes(Sess, fault)
       IN /\ SetSess(r.s)
          /\ log' = Append(log, r.line)
          /\ flags' = [flags EXCEPT !.dropErr = r.err]
          /\ last' = Record("drop_indexes", 0, {}, r.err)
    /\ pc' = "compare"
    /\ UNCHANGED <<Locals, exit, events, calls>>

\* self._print_comparison_table(results_without_index, results_with_index)
Compare ==
    /\ pc = "compare"
    /\ LET r == _print_comparison_table(results_without_index, results_with_index)
       IN /\ log' = log \o r.lines
          /\ IF r.err # "none"
             THEN ProcessEnd(r.err)
             ELSE /\ pc' = "returned"
                  /\ UNCHANGED <<db, cur, tx, Locals, exit>>
    /\ UNCHANGED <<events, flags, last, calls>>

\* the summary table at the end of the baseline run_performance_tests
Summary ==
    /\ pc = "summary"
    /\ log' = log \o SummaryLines(results)
    /\ pc' = "returned"
    /\ UNCHANGED <<db, cur, tx, Locals, exit, events, flags, last, calls>>

\* tester.close() and the end of main()
Close ==
    /\ pc = "returned"
    /\ ProcessEnd("ok")
    /\ UNCHANGED <<log, events, flags, last, calls>>

\* the process is stopped from outside, or a statement outside try/except raises
Interrupt ==
    /\ pc \notin {"idle", "api"}
    /\ ProcessEnd("killed")
    /\ UNCHANGED <<log, events, flags, last, calls>>

Next ==
    \/ \E v \in Variants : Main(v)
    \/ \E sizes \in TestSizeSeqs : StartCycle(sizes)
    \/ TierHeader
    \/ Truncate
    \/ Insert
    \/ Select
    \/ Update
    \/ Delete
    \/ LogDuration
    \/ TierEnd
    \/ CycleReturn
    \/ \E fault \in IndexFaults : CreateIndexes(fault)
    \/ \E fault \in IndexFaults : DropIndexes(fault)
    \/ Compare
    \/ Summary
    \/ Close
    \/ Interrupt

Spec == Init /\ [][Next]_vars

\* ------------------------------------------- the methods called one by one
\* A tester object after create_test_table(), its methods called in any order
\* with any argument, as a caller of the class may do.
InitApi ==
    /\ db = create_test_table(EmptyDb)
    /\ cur = db
    /\ tx = "idle"
    /\ pc = "api"
    /\ variant \in Variants
    /\ test_sizes = <<>>
    /\ i = 1
    /\ cycle = 1
    /\ elapsed = NoElapsed
    /\ times = <<>>
    /\ results = EmptyDict
    /\ results_without_index = EmptyDict
    /\ results_with_index = EmptyDict
    /\ log = <<>>
    /\ exit = "running"
    /\ events = <<>>
    /\ flags = NoFlags
    /\ last = NoLast
    /\ calls = 0

ApiFrame ==
    /\ pc = "api"
    /\ calls < MaxApiCalls
    /\ calls' = calls + 1
    /\ UNCHANGED <<pc, Locals, exit, events, flags>>

ApiCreateIndexes(fault) ==
    /\ ApiFrame
    /\ LET r == create_indexes(Sess, fault)
       IN /\ SetSess(r.s)
          /\ log' = Append(log, r.line)
          /\ last' = Record("create_indexes", 0, {}, r.err)

ApiDropIndexes(fault) ==
    /\ ApiFrame
    /\ LET r == drop_indexes(Sess, fault)
       IN /\ SetSess(r.s)
          /\ log' = Append(log, r.line)
          /\ last' = Record("drop_indexes", 0, {}, r.err)

ApiTruncate ==
    /\ ApiFrame
    /\ LET r == truncate(Sess)
       IN /\ SetSess(r.s)
          /\ last' = Record("truncate", 0, {}, r.err)
    /\ UNCHANGED log

ApiInsert(n) ==
    /\ ApiFrame
    /\ Cardinality(cur.table) + n <= MaxSize + 1
    /\ \E inp \in InsertInputs(n) :
         LET r == insert_data(Sess, inp.ps, inp.tss)
         IN /\ SetSess(r.s)
            /\ last' = Record("insert_data", n, {}, r.err)
    /\ UNCHANGED log

ApiSelect(n) ==
    /\ ApiFrame
    /\ LET r == select_data(Sess, n)
       IN /\ SetSess(r.s)
          /\ last' = Record("select_data", n, FirstIds(cur.table, n), r.err)
    /\ UNCHANGED log

ApiUpdate(n) ==
    /\ ApiFrame
    /\ \E S \in Selections(variant, cur.table, n) :
         LET r == update_data(Sess, S)
         IN /\ SetSess(r.s)
            /\ last' = Record("update_data", n, S, r.err)
    /\ UNCHANGED log

ApiDelete(n) ==
    /\ ApiFrame
    /\ \E S \in Selections(variant, cur.table, n) :
         LET r == delete_data(Sess, S)
         IN /\ SetSess(r.s)
            /\ last' = Record("delete_data", n, S, r.err)
    /\ UNCHANGED log

NextApi ==
    \/ \E fault \in IndexFaults : ApiCreateIndexes(fault)
    \/ \E fault \in IndexFaults : ApiDropIndexes(fault)
    \/ ApiTruncate
    \/ \E n \in Sizes : ApiInsert(n)
    \/ \E n \in Counts : ApiSelect(n)
    \/ \E n \in Counts : ApiUpdate(n)
    \/ \E n \in Counts : ApiDelete(n)

SpecApi == InitApi /\ [][NextApi]_vars

\* ------------------------------------------------------------ the claims
Range(q) == {q[j] : j \in DOMAIN q}
Indexed == pc \notin {"idle", "api"} /\ variant = "indexed"
\* the driver is about to execute a database operation of a tier, and it will run
Executing == pc \in {"truncate", "insert", "select", "update", "delete"} /\ tx # "failed"

\* C1: when a tier has run its delete_data(N), N > 0, the table holds no row,
\* whatever it held when the tier started, in both drivers.
C1_TierNetsToEmpty ==
    (pc = "log_delete" \/ (pc = "loop" /\ i > 1))
        => (cur.table = {} /\ db.table = {})

C1_Witness ==
    /\ pc = "log_delete"
    /\ size > 0
    /\ flags.truncRows > 0
    /\ last.op = "delete_data" /\ Cardinality(last.table) = size

\* C4: the TRUNCATE ... RESTART IDENTITY at the start of a tier leaves an empty
\* table whose next id is 1, and after insert_data(N) the rows have the ids 1..N,
\* whatever earlier tiers or runs left behind.
C4_TierStartsFresh ==
    /\ pc = "insert" => (cur.table = {} /\ cur.seq = 1)
    /\ pc = "log_insert" =>
          /\ Ids(cur.table) = 1..size
          /\ Cardinality(cur.table) = size
          /\ db.table = cur.table

C4_Witness ==
    /\ pc = "log_insert"
    /\ flags.truncSeq > 1
    /\ flags.truncRows > 0
    /\ Ids(cur.table) = 1..size

\* C6: update_data(count) appends '_updated' once to the description of each
\* selected row (the first count rows by id in the indexed driver, any
\* min(count, rows) rows in the baseline driver) and changes nothing else: the
\* other descriptions, every id, name and created_at, and the number of rows.
C6_UpdateFrame ==
    (last.op = "update_data" /\ last.err = "none") =>
        /\ last.sel \subseteq Ids(last.table)
        /\ Cardinality(last.sel) = Min(last.count, Cardinality(last.table))
        /\ variant = "indexed" =>
              \A a \in last.sel, b \in Ids(last.table) \ last.sel : a < b
        /\ Cardinality(cur.table) = Cardinality(last.table)
        /\ Ids(cur.table) = Ids(last.table)
        /\ \A r \in last.table : \E q \in cur.table :
              /\ q.id = r.id
              /\ q.name = r.name
              /\ q.created_at = r.created_at
              /\ q.description = IF r.id \in last.sel
                                 THEN r.description \o <<Suffix>>
                                 ELSE r.description
        /\ db.table = cur.table

C6_Witness ==
    /\ last.op = "update_data" /\ last.err = "none"
    /\ last.count > 0
    /\ last.count < Cardinality(last.table)
    /\ \E r \in last.table : r.id \in last.sel /\ Suffix \in Range(r.description)
    /\ \E r \in last.table : r.id \notin last.sel

\* C8: the events of a tier happen in the order header, truncate, insert, its
\* log line, select, its log line, update, its log line, delete, its log line;
\* the log of the tier is the header line followed by the duration lines written
\* so far, in the order insert, select, update, delete, all for the tier's size.
TierOrder == <<"header", "truncate", "insert", "log_insert", "select", "log_select",
               "update", "log_update", "delete", "log_delete">>
TierLogOrder == <<"header", "Insert", "Select", "Update", "Delete">>
IsLogEvent(e) == e \in {"header", "log_insert", "log_select", "log_update", "log_delete"}
InTier == pc \in TierSteps \/ (pc = "loop" /\ i > 1)
TierSize == IF pc = "loop" THEN test_sizes[i - 1] ELSE size

C8_TierOrder ==
    InTier =>
        LET k == Len(SelectSeq(events, IsLogEvent))
        IN /\ events = SubSeq(TierOrder, 1, Len(events))
           /\ pc = "loop" => events = TierOrder
           /\ pc # "loop" => pc = TierOrder[Len(events) + 1]
           /\ Len(log) >= k
           /\ \A j \in 1..k :
                 /\ log[Len(log) - k + j].kind = TierLogOrder[j]
                 /\ log[Len(log) - k + j].size = TierSize

C8_Witness ==
    /\ pc = "loop" /\ i > 1
    /\ events = TierOrder
    /\ Len(log) >= 5
    /\ [j \in 1..5 |-> log[Len(log) - 5 + j].kind] = TierLogOrder

\* C10: where the drivers call update_data and delete_data, the unordered LIMIT
\* of the baseline driver can only return the rows the ordered LIMIT returns, so
\* every choice leads to the same table; a table and a count for which the two
\* can differ has more rows than the count.
C10_PoliciesAgree ==
    /\ pc = "update" =>
          {UpdateRows(cur.table, S) : S \in Selections("baseline", cur.table, size)}
            = {UpdateRows(cur.table, S) : S \in Selections("indexed", cur.table, size)}
    /\ pc = "delete" =>
          {DeleteRows(cur.table, S) : S \in Selections("baseline", cur.table, size)}
            = {DeleteRows(cur.table, S) : S \in Selections("indexed", cur.table, size)}
    /\ InTier /\ pc \notin {"truncate", "insert"} => Cardinality(cur.table) <= TierSize
    /\ \A n \in Counts :
          Selections("baseline", cur.table, n) # Selections("indexed", cur.table, n)
              => n < Cardinality(cur.table)

C10_Witness ==
    /\ pc = "delete"
    /\ variant = "baseline"
    /\ size >= 2
    /\ Cardinality(cur.table) = size
    /\ flags.truncRows > 0

\* C9: create_indexes with both indexes present, and drop_indexes with none
\* present, raise no error of their own (the database client can still fail)
\* and, having succeeded, leave indexes and rows as they were; a second call of
\* either leaves the state the first call produced.
C9_IndexOpsIdempotent ==
    /\ (last.op = "create_indexes" /\ last.indexes = BothIndexes) =>
          /\ last.err \in {"none", "OperationalError", "InFailedSqlTransaction"}
          /\ last.err = "none" => (cur.indexes = BothIndexes /\ cur.table = last.table)
    /\ (last.op = "drop_indexes" /\ last.indexes = {}) =>
          /\ last.err \in {"none", "OperationalError", "InFailedSqlTransaction"}
          /\ last.err = "none" => (cur.indexes = {} /\ cur.table = last.table)
    /\ tx # "failed" =>
          LET c1 == create_indexes(Sess, "none")
              c2 == create_indexes(c1.s, "none")
              d1 == drop_indexes(Sess, "none")
              d2 == drop_indexes(d1.s, "none")
          IN /\ c1.err = "none" /\ c2.err = "none" /\ c2.s = c1.s
             /\ c1.s.cur.indexes = BothIndexes /\ c1.s.cur.table = cur.table
             /\ d1.err = "none" /\ d2.err = "none" /\ d2.s = d1.s
             /\ d1.s.cur.indexes = {} /\ d1.s.cur.table = cur.table

C9_Witness ==
    /\ last.op = "create_indexes"
    /\ last.indexes = BothIndexes
    /\ last.err = "none"
    /\ last.table # {}
    /\ cur.indexes = BothIndexes

ErrorExits == {"InFailedSqlTransaction", "ZeroDivisionError", "KeyError"}

\* C2: after create_indexes has caught an error of the database client, the run
\* goes on: it does not end with an exception, and the statements of the second
\* pass run.
C2_RunContinuesAfterIndexError ==
    flags.createErr \notin {"notrun", "none"} =>
        /\ exit \notin ErrorExits
        /\ (Indexed /\ pc \in {"truncate", "insert", "select", "update", "delete"})
              => tx # "failed"

\* C3: _print_comparison_table never ends in a division error, also when a
\* duration measured without indexes is zero.
C3_ReportNeverRaises ==
    exit # "ZeroDivisionError"

\* C7: once _print_comparison_table has run, both result sets have one entry
\* (with the four durations) per tested size and the report has one row per
\* (size, operation) pair.
IsRow(l) == l.kind = "row"
ReportRows == SelectSeq(log, IsRow)

C7_ResultShape ==
    /\ (Indexed /\ pc \in {"compare", "returned"}) =>
          /\ DOMAIN results_without_index.vals = Range(test_sizes)
          /\ DOMAIN results_with_index.vals = Range(test_sizes)
          /\ Range(results_without_index.keys) = Range(test_sizes)
          /\ results_with_index.keys = results_without_index.keys
          /\ \A n \in Range(test_sizes) :
                /\ DOMAIN results_without_index.vals[n] = OpSet
                /\ DOMAIN results_with_index.vals[n] = OpSet
    /\ ((Indexed /\ pc = "returned") \/ exit = "ZeroDivisionError") =>
          /\ Len(ReportRows) = 4 * Cardinality(Range(flags.sizes))
          /\ \A n \in Range(flags.sizes), o \in OpSet :
                Cardinality({j \in DOMAIN ReportRows :
                               ReportRows[j].size = n /\ ReportRows[j].op = o}) = 1

\* the part of C7 that holds: the shape of the result sets, and of the report
\* of a run that returned
C7_ShapeOnReturn ==
    /\ (Indexed /\ pc \in {"compare", "returned"}) =>
          /\ DOMAIN results_without_index.vals = Range(test_sizes)
          /\ DOMAIN results_with_index.vals = Range(test_sizes)
          /\ results_with_index.keys = results_without_index.keys
    /\ (Indexed /\ pc = "returned") =>
          Len(ReportRows) = 4 * Cardinality(Range(test_sizes))

====
